---- MODULE Spec2Model ----
(***************************************************************************)
(* Model of the InAA no-login demo (src/app.py): the accessibility linter  *)
(* (rule table, flag assembly, rule-based clean copy), the optional AI     *)
(* polish of the clean copy, and the three export sections, as they run in *)
(* one Streamlit script run after another.                                 *)
(*                                                                         *)
(* Text values (the input text, a flag's match, the clean copy, an export  *)
(* body) are sequences of one-character strings, so that the regular       *)
(* expressions of the rule table are matched character by character the    *)
(* way Python's re module matches them: leftmost match, alternatives tried *)
(* in the order written, greedy quantifiers that give back one character   *)
(* at a time.                                                              *)
(***************************************************************************)
EXTENDS Integers, Sequences, FiniteSets, TLC

\* ------------------------------------------------------------------------
\* Characters
\* ------------------------------------------------------------------------

UpperToLower ==
    "A" :> "a" @@ "B" :> "b" @@ "C" :> "c" @@ "D" :> "d" @@ "E" :> "e" @@ "F" :> "f" @@
    "G" :> "g" @@ "H" :> "h" @@ "I" :> "i" @@ "J" :> "j" @@ "K" :> "k" @@ "L" :> "l" @@
    "M" :> "m" @@ "N" :> "n" @@ "O" :> "o" @@ "P" :> "p" @@ "Q" :> "q" @@ "R" :> "r" @@
    "S" :> "s" @@ "T" :> "t" @@ "U" :> "u" @@ "V" :> "v" @@ "W" :> "w" @@ "X" :> "x" @@
    "Y" :> "y" @@ "Z" :> "z"

UpperLetters == DOMAIN UpperToLower

LowerLetters == {UpperToLower[c] : c \in UpperLetters}

Digits == {"0", "1", "2", "3", "4", "5", "6", "7", "8", "9"}

\* \s of the patterns, and the characters str.strip() removes
Whitespace == {" ", "\t", "\n", "\r"}

\* \w, which decides where \b holds
WordChars == UpperLetters \cup LowerLetters \cup Digits \cup {"_"}

\* the case folding of re.I
Lower(c) == IF c \in UpperLetters THEN UpperToLower[c] ELSE c

\* whether text character c matches pattern character pc, under re.I when ic
EqChar(ic, c, pc) == IF ic THEN Lower(c) = Lower(pc) ELSE c = pc

InClass(cls, c) ==
    CASE cls = "s" -> c \in Whitespace
      [] cls = "d" -> c \in Digits

\* ------------------------------------------------------------------------
\* The strings of the patterns and of the replacement templates
\* ------------------------------------------------------------------------

s_climb ==
    <<"c","l","i","m","b">>

s_ing ==
    <<"i","n","g">>

s_lift ==
    <<"l","i","f","t">>

s_lb ==
    <<"l","b">>

s_lbs ==
    <<"l","b","s">>

s_pounds ==
    <<"p","o","u","n","d","s">>

s_kg ==
    <<"k","g">>

s_excellent_communication ==
    <<"e","x","c","e","l","l","e","n","t"," ","c","o","m","m","u","n","i","c","a","t","i","o","n">>

s_team_player ==
    <<"t","e","a","m"," ","p","l","a","y","e","r">>

s_self ==
    <<"s","e","l","f">>

s_starter ==
    <<"s","t","a","r","t","e","r">>

s_strong_work_ethic ==
    <<"s","t","r","o","n","g"," ","w","o","r","k"," ","e","t","h","i","c">>

s_detail ==
    <<"d","e","t","a","i","l">>

s_oriented ==
    <<"o","r","i","e","n","t","e","d">>

s_accommodation ==
    <<"w","i","t","h"," ","o","r"," ","w","i","t","h","o","u","t"," ","r","e","a","s","o","n","a",
      "b","l","e"," ","a","c","c","o","m","m","o","d","a","t","i","o","n">>

s_ascend ==
    <<"a","s","c","e","n","d">>

s_move_materials ==
    <<"m","o","v","e"," ","m","a","t","e","r","i","a","l","s"," ","u","p"," ","t","o"," ">>

s_space ==
    <<" ">>

s_safe_methods ==
    <<" ","u","s","i","n","g"," ","s","a","f","e"," ","m","e","t","h","o","d","s">>

s_communicates ==
    <<"c","o","m","m","u","n","i","c","a","t","e","s"," ","c","l","e","a","r","l","y"," ","w","i",
      "t","h"," ","m","e","n","t","o","r","s"," ","a","n","d"," ","c","l","o","s","e","s"," ","t",
      "h","e"," ","l","o","o","p"," ","o","n"," ","t","a","s","k","s">>
\* ------------------------------------------------------------------------
\* Pattern syntax
\* ------------------------------------------------------------------------

Str(cs) == [t |-> "str", cs |-> cs]

\* a bracketed set such as [- ]
OneOf(set) == [t |-> "set", set |-> set]

\* \b
WordBoundary == [t |-> "wb"]

\* a1|a2|...
Alt(ps) == [t |-> "alt", ps |-> ps]

\* p1 p2 ...
Cat(ps) == [t |-> "cat", ps |-> ps]

\* p?
Opt(p) == [t |-> "opt", p |-> p]

\* \s*, \d*
Star(cls) == [t |-> "rep", cls |-> cls, min |-> 0]

\* \s+, \d+
Plus(cls) == [t |-> "rep", cls |-> cls, min |-> 1]

\* the n-th capturing group (p)
Group(n, p) == [t |-> "grp", n |-> n, p |-> p]

\* a template piece: literal text, or \n
TLit(cs) == [k |-> "lit", cs |-> cs]

TRef(n) == [k |-> "ref", n |-> n]

\* ------------------------------------------------------------------------
\* Matching as Python's re does it
\* ------------------------------------------------------------------------

NGroups == 2

\* no group has taken part in the match
NoGroups == [n \in 1..NGroups |-> <<0, 0>>]

Res(e, g) == [e |-> e, g |-> g]

RECURSIVE Concat(_)
Concat(ss) == IF Len(ss) = 0 THEN <<>> ELSE Head(ss) \o Concat(Tail(ss))

\* how many characters of class cls stand at s[i], s[i+1], ...
RECURSIVE RunLen(_, _, _)
RunLen(cls, s, i) ==
    IF i <= Len(s) /\ InClass(cls, s[i]) THEN 1 + RunLen(cls, s, i + 1) ELSE 0

IsWordAt(s, i) == i >= 1 /\ i <= Len(s) /\ s[i] \in WordChars

\* \b between s[i-1] and s[i]
AtWordBoundary(s, i) == IsWordAt(s, i - 1) # IsWordAt(s, i)

\* Every way pattern p matches s from position i on, best first: the first
\* element is the match the backtracking matcher settles on.  A result is
\* the position after the match and the groups captured on the way.
RECURSIVE Match(_, _, _, _, _)
RECURSIVE MatchCat(_, _, _, _, _, _)
Match(p, ic, s, i, g) ==
    CASE p.t = "str" ->
           IF /\ i + Len(p.cs) - 1 <= Len(s)
              /\ \A k \in 1..Len(p.cs) : EqChar(ic, s[i + k - 1], p.cs[k])
           THEN <<Res(i + Len(p.cs), g)>>
           ELSE <<>>
      [] p.t = "set" ->
           IF i <= Len(s) /\ \E pc \in p.set : EqChar(ic, s[i], pc)
           THEN <<Res(i + 1, g)>>
           ELSE <<>>
      [] p.t = "wb" ->
           IF AtWordBoundary(s, i) THEN <<Res(i, g)>> ELSE <<>>
      [] p.t = "alt" ->
           Concat([k \in 1..Len(p.ps) |-> Match(p.ps[k], ic, s, i, g)])
      [] p.t = "cat" ->
           MatchCat(p.ps, 1, ic, s, i, g)
      [] p.t = "opt" ->
           Match(p.p, ic, s, i, g) \o <<Res(i, g)>>
      [] p.t = "rep" ->
           LET n == RunLen(p.cls, s, i)
           IN  IF n < p.min THEN <<>>
               ELSE [k \in 1..(n - p.min + 1) |-> Res(i + n - k + 1, g)]
      [] p.t = "grp" ->
           LET rs == Match(p.p, ic, s, i, g)
           IN  [k \in 1..Len(rs) |->
                  Res(rs[k].e, [rs[k].g EXCEPT ![p.n] = <<i, rs[k].e>>])]
MatchCat(ps, k, ic, s, i, g) ==
    IF k > Len(ps) THEN <<Res(i, g)>>
    ELSE LET rs == Match(ps[k], ic, s, i, g)
         IN  Concat([j \in 1..Len(rs) |-> MatchCat(ps, k + 1, ic, s, rs[j].e, rs[j].g)])

\* no match starts here
NoMatch == [b |-> 0, e |-> 0, g |-> NoGroups]

\* For every position of s, the match the matcher finds when started there:
\* its first position b, the position e after its last, and its groups.
\* No pattern of the rule table matches the empty string.
MatchesAt(p, ic, s) ==
    [q \in 1..Len(s) |->
       LET rs == Match(p, ic, s, q, NoGroups)
       IN  IF Len(rs) = 0 \/ rs[1].e = q THEN NoMatch
           ELSE [b |-> q, e |-> rs[1].e, g |-> rs[1].g]]

\* the matches from left to right, each search starting at pos, where the
\* previous match ended
RECURSIVE ScanFrom(_, _, _)
ScanFrom(at, n, pos) ==
    LET starts == {q \in pos..n : at[q].b # 0}
    IN  IF starts = {} THEN <<>>
        ELSE LET q == CHOOSE x \in starts : \A y \in starts : x <= y
             IN  <<at[q]>> \o ScanFrom(at, n, at[q].e)

\* re.finditer(pattern, string, flags)
re_finditer(p, s, ic) == ScanFrom(MatchesAt(p, ic, s), Len(s), 1)

\* m.group(0)
Group0(s, m) == SubSeq(s, m.b, m.e - 1)

\* m.group(n) in a template: empty when the group took no part in the match
GroupText(s, m, n) ==
    IF m.g[n] = <<0, 0>> THEN <<>> ELSE SubSeq(s, m.g[n][1], m.g[n][2] - 1)

\* the replacement template filled in for match m
Expand(repl, s, m) ==
    Concat([k \in 1..Len(repl) |->
              IF repl[k].k = "lit" THEN repl[k].cs ELSE GroupText(s, m, repl[k].n)])

RECURSIVE SubFrom(_, _, _, _, _)
SubFrom(ms, k, repl, s, pos) ==
    IF k > Len(ms) THEN SubSeq(s, pos, Len(s))
    ELSE SubSeq(s, pos, ms[k].b - 1) \o Expand(repl, s, ms[k])
           \o SubFrom(ms, k + 1, repl, s, ms[k].e)

\* re.sub(pattern, repl, string, flags=...)
re_sub(p, repl, s, ic) == SubFrom(re_finditer(p, s, ic), 1, repl, s, 1)

\* a variant that takes only the empty text for blank, as "if not text:" would
IsEmptyText(s) == Len(s) = 0

\* str.strip() leaves nothing
IsBlank(s) == \A k \in 1..Len(s) : s[k] \in Whitespace

\* ------------------------------------------------------------------------
\* The rule table and the linter pass
\* ------------------------------------------------------------------------

\* r"\bclimb(ing)?\b"
ClimbPattern ==
    Cat(<<WordBoundary, Str(s_climb), Opt(Group(1, Str(s_ing))), WordBoundary>>)

\* r"lift(?:ing)?\s*(\d+)\s*(lb|lbs|pounds|kg)?"
LiftPattern ==
    Cat(<<Str(s_lift), Opt(Str(s_ing)), Star("s"), Group(1, Plus("d")), Star("s"),
          Opt(Group(2, Alt(<<Str(s_lb), Str(s_lbs), Str(s_pounds), Str(s_kg)>>)))>>)

\* r"(excellent communication|team player|self[- ]starter|strong work ethic|detail[- ]oriented)"
SoftSkillPattern ==
    Group(1, Alt(<<Str(s_excellent_communication),
                   Str(s_team_player),
                   Cat(<<Str(s_self), OneOf({"-", " "}), Str(s_starter)>>),
                   Str(s_strong_work_ethic),
                   Cat(<<Str(s_detail), OneOf({"-", " "}), Str(s_oriented)>>)>>))

\* r"with or without reasonable accommodation"
BoilerplatePattern == Str(s_accommodation)

RULES ==
    << [id |-> "R-A1", pattern |-> ClimbPattern, flags |-> {"i"}, severity |-> "warn",
        message |-> "Replace physical-method verb with task-focused wording.",
        suggestion |-> "Use 'ascend a ladder' or 'access elevated work areas'."],
       [id |-> "R-A2", pattern |-> LiftPattern, flags |-> {"i"}, severity |-> "warn",
        message |-> "Hard physical requirement may exclude qualified candidates if not essential.",
        suggestion |-> "State the task and allow assistive devices/team lifts."],
       [id |-> "R-B3", pattern |-> SoftSkillPattern, flags |-> {"i"}, severity |-> "info",
        message |-> "Vague soft-skill language.",
        suggestion |-> "Define observable behaviors."],
       [id |-> "R-D1", pattern |-> BoilerplatePattern, flags |-> {"i"}, severity |-> "info",
        message |-> "ADA boilerplate belongs in HR, not WPS.",
        suggestion |-> "Remove from WPS; keep in policy docs."] >>

\* a variant that flags only a rule's first match, as re.search would
RuleFlagsFirstMatch(r, t) ==
    LET flg == "i" \in r.flags
        ms  == re_finditer(r.pattern, t, flg)
    IN  [k \in 1..(IF Len(ms) > 0 THEN 1 ELSE 0) |->
           [rule_id |-> r.id, severity |-> r.severity, match |-> Group0(t, ms[k]),
            message |-> r.message, suggestion |-> r.suggestion]]

\* the flags one rule adds: one per match of its pattern in t, left to right
RuleFlags(r, t) ==
    LET flg == "i" \in r.flags
        ms  == re_finditer(r.pattern, t, flg)
    IN  [k \in 1..Len(ms) |->
           [rule_id |-> r.id, severity |-> r.severity, match |-> Group0(t, ms[k]),
            message |-> r.message, suggestion |-> r.suggestion]]

\* the patterns, templates and flags written out in the three re.sub calls
ClimbSubPattern ==
    Cat(<<WordBoundary, Str(s_climb), Opt(Group(1, Str(s_ing))), WordBoundary>>)

ClimbSubRepl == <<TLit(s_ascend)>>

LiftSubPattern ==
    Cat(<<Str(s_lift), Opt(Str(s_ing)), Star("s"), Group(1, Plus("d")), Star("s"),
          Opt(Group(2, Alt(<<Str(s_lb), Str(s_lbs), Str(s_pounds), Str(s_kg)>>)))>>)

\* r"move materials up to \1 \2 using safe methods"
LiftSubRepl == <<TLit(s_move_materials), TRef(1), TLit(s_space), TRef(2), TLit(s_safe_methods)>>

SoftSkillSubPattern ==
    Group(1, Alt(<<Str(s_excellent_communication),
                   Str(s_team_player),
                   Cat(<<Str(s_self), OneOf({"-", " "}), Str(s_starter)>>),
                   Str(s_strong_work_ethic),
                   Cat(<<Str(s_detail), OneOf({"-", " "}), Str(s_oriented)>>)>>))

SoftSkillSubRepl == <<TLit(s_communicates)>>

\* a variant without flags=re.I
SubClimbCaseSensitive(t) == re_sub(ClimbSubPattern, ClimbSubRepl, t, FALSE)

\* clean = re.sub(r"\bclimb(ing)?\b", "ascend", text, flags=re.I)
SubClimb(t) == re_sub(ClimbSubPattern, ClimbSubRepl, t, TRUE)

\* a variant without flags=re.I
SubLiftCaseSensitive(c) == re_sub(LiftSubPattern, LiftSubRepl, c, FALSE)

\* clean = re.sub(r"lift...", r"move materials up to \1 \2 using safe methods", clean, flags=re.I)
SubLift(c) == re_sub(LiftSubPattern, LiftSubRepl, c, TRUE)

\* clean = re.sub(r"(excellent communication|...)", r"communicates ...", clean, flags=re.I)
SubSoftSkill(c) == re_sub(SoftSkillSubPattern, SoftSkillSubRepl, c, TRUE)

\* a variant that also takes out what R-D1 flags, as its suggestion reads
CleanCopyWithoutBoilerplate(t) ==
    re_sub(BoilerplatePattern, <<>>, SubSoftSkill(SubLift(SubClimb(t))), TRUE)

\* the rule-based clean copy of t
CleanCopy(t) == SubSoftSkill(SubLift(SubClimb(t)))

\* a variant that scans the rewritten text instead of the original
LintFlagsOfCleanCopy(t) ==
    Concat([k \in 1..Len(RULES) |-> RuleFlags(RULES[k], CleanCopy(t))])

\* for r in RULES: for m in re.finditer(r["pattern"], text, flg): flags.append(...)
LintFlags(t) == Concat([k \in 1..Len(RULES) |-> RuleFlags(RULES[k], t)])

\* notes = "RTI Outline (Derived)\n- Modules with UDL hooks\n..."
RtiOutline ==
    <<"R","T","I"," ","O","u","t","l","i","n","e"," ","(","D","e","r","i","v","e","d",")","\n",
      "-"," ","M","o","d","u","l","e","s"," ","w","i","t","h"," ","U","D","L"," ","h","o","o","k",
      "s","\n","-"," ","A","c","c","e","s","s","i","b","l","e"," ","m","a","t","e","r","i","a",
      "l","s","\n","-"," ","P","e","r","f","o","r","m","a","n","c","e","-","b","a","s","e","d",
      " ","a","s","s","e","s","s","m","e","n","t","s","\n">>

\* "\nNotes:\n"
RtiNotesHeader ==
    <<"\n","N","o","t","e","s",":","\n">>

Scenario1Text ==
    <<"W","o","r","k","e","r","s"," ","m","u","s","t"," ","e","n","j","o","y"," ","c","l","i","m",
      "b","i","n","g"," ","l","a","d","d","e","r","s"," ","a","n","d"," ","l","i","f","t","i","n",
      "g"," ","5","0"," ","l","b","s"," ","d","a","i","l","y",".">>

Scenario1Tail ==
    <<"e","n","j","o","y"," ","a","s","c","e","n","d"," ","l","a","d","d","e","r","s"," ","a","n",
      "d"," ","m","o","v","e"," ","m","a","t","e","r","i","a","l","s"," ","u","p"," ","t","o"," ",
      "5","0"," ","l","b","s"," ","u","s","i","n","g"," ","s","a","f","e"," ","m","e","t","h","o",
      "d","s"," ","d","a","i","l","y",".">>

Scenario1Lift ==
    <<"l","i","f","t","i","n","g"," ","5","0"," ","l","b","s">>

Scenario1Climb ==
    <<"c","l","i","m","b","i","n","g">>

Scenario2Text ==
    <<"W","e"," ","n","e","e","d"," ","a"," ","d","e","t","a","i","l","-","o","r","i","e","n","t",
      "e","d"," ","t","e","a","m"," ","p","l","a","y","e","r",".">>

Scenario2Clean1 ==
    <<"W","e"," ","n","e","e","d"," ","a"," ","c","o","m","m","u","n","i","c","a","t","e","s"," ",
      "c","l","e","a","r","l","y"," ","w","i","t","h"," ","m","e","n","t","o","r","s"," ","a","n",
      "d"," ","c","l","o","s","e","s"," ","t","h","e"," ","l","o","o","p"," ","o","n"," ","t","a",
      "s","k","s"," ","t","e","a","m"," ","p","l","a","y","e","r",".">>

Scenario2Clean2 ==
    <<"W","e"," ","n","e","e","d"," ","a"," ","d","e","t","a","i","l","-","o","r","i","e","n","t",
      "e","d"," ","c","o","m","m","u","n","i","c","a","t","e","s"," ","c","l","e","a","r","l","y",
      " ","w","i","t","h"," ","m","e","n","t","o","r","s"," ","a","n","d"," ","c","l","o","s","e",
      "s"," ","t","h","e"," ","l","o","o","p"," ","o","n"," ","t","a","s","k","s",".">>

Scenario2CleanBoth ==
    <<"W","e"," ","n","e","e","d"," ","a"," ","c","o","m","m","u","n","i","c","a","t","e","s"," ",
      "c","l","e","a","r","l","y"," ","w","i","t","h"," ","m","e","n","t","o","r","s"," ","a","n",
      "d"," ","c","l","o","s","e","s"," ","t","h","e"," ","l","o","o","p"," ","o","n"," ","t","a",
      "s","k","s"," ","c","o","m","m","u","n","i","c","a","t","e","s"," ","c","l","e","a","r","l",
      "y"," ","w","i","t","h"," ","m","e","n","t","o","r","s"," ","a","n","d"," ","c","l","o","s",
      "e","s"," ","t","h","e"," ","l","o","o","p"," ","o","n"," ","t","a","s","k","s",".">>

Scenario3Text ==
    <<"P","e","r","f","o","r","m"," ","d","u","t","i","e","s"," ","w","i","t","h"," ","o","r"," ",
      "w","i","t","h","o","u","t"," ","r","e","a","s","o","n","a","b","l","e"," ","a","c","c","o",
      "m","m","o","d","a","t","i","o","n",".">>
\* the pieces bounded texts are put together from
Pieces ==
    << <<"c","l","i","m","b">>,
       <<"C","l","i","m","b","i","n","g">>,
       <<" ">>,
       <<"l","i","f","t"," ","5">>,
       <<"L","I","F","T","I","N","G"," "," ","4","0"," ">>,
       <<"l","b","s">>,
       <<"s">>,
       <<"T","e","a","m"," ","p","l","a","y","e","r">>,
       <<"w","i","t","h"," ","o","r"," ","w","i","t","h","o","u","t"," ","r","e","a","s","o","n",
         "a","b","l","e"," ","a","c","c","o","m","m","o","d","a","t","i","o","n">> >>

UnitsText ==
    <<"S","e","l","f","-","s","t","a","r","t","e","r"," ","a","b","l","e"," ","t","o"," ","l","i",
      "f","t"," ","2","0"," ","k","g"," ","o","r"," ","l","i","f","t","i","n","g"," ","3","0","p",
      "o","u","n","d","s",";"," ","s","t","r","o","n","g"," ","w","o","r","k"," ","e","t","h","i",
      "c",".">>

MixedText ==
    <<"E","x","c","e","l","l","e","n","t"," ","c","o","m","m","u","n","i","c","a","t","i","o","n",
      ":"," ","c","l","i","m","b",","," ","L","I","F","T"," ","7"," ","l","b","\n","C","l","i",
      "m","b","s","_"," ","n","o","t"," ","c","l","i","m","b","e","d",";"," ","d","e","t","a","i",
      "l"," ","o","r","i","e","n","t","e","d"," ","s","e","l","f"," ","s","t","a","r","t","e","r",
      ".">>

\* ------------------------------------------------------------------------
\* Input texts
\* ------------------------------------------------------------------------

\* how many pieces a bounded text is put together from, at most
MaxPieces == 3

\* every text of at most MaxPieces pieces
PieceTexts ==
    LET choices == UNION {[1..n -> 1..Len(Pieces)] : n \in 0..MaxPieces}
    IN  {Concat([k \in 1..Len(c) |-> Pieces[c[k]]]) : c \in choices}

\* texts str.strip() empties: nothing uploaded or pasted, and an uploaded
\* file of white space only
BlankTexts == {<<>>, <<" ">>, <<" ", "\n">>}

ScenarioTexts == {Scenario1Text, Scenario2Text, Scenario3Text}

\* further texts: the other units, the other soft-skill phrases, word boundaries
ExtraTexts == {UnitsText, MixedText}

\* the texts of the linter specification
LintTexts == PieceTexts \cup BlankTexts \cup ScenarioTexts \cup ExtraTexts

\* the texts of the application specification
AppTexts == ScenarioTexts \cup {<<>>, <<" ">>, s_climb}

\* what the remote model may answer
PolishedTexts == {s_ascend, s_climb}

\* ------------------------------------------------------------------------
\* The script, run after run
\* ------------------------------------------------------------------------

VARIABLES
    API_KEY,    \* whether OPENAI_API_KEY holds a credential
    text,       \* the uploaded or pasted text
    button,     \* the button whose click triggered this run, "none" for another event
    pc,         \* where the run stands: "idle" between two runs
    flags,      \* the script's flags
    clean,      \* the script's clean
    polishBox,  \* what the polish checkbox returned in this run
    polish,     \* the remote call of this run: "off", "ok" or "error"
    download,   \* what the export section of this run offers
    linted      \* history: the text, clean copy and flags of the latest linter pass

vars == <<API_KEY, text, button, pc, flags, clean, polishBox, polish, download, linted>>

Buttons == {"none", "lint", "wps", "rti", "xlsx"}

NoDownload == [kind |-> "none", body |-> <<>>, rows |-> <<>>]

Offer(kind, body, rows) == [kind |-> kind, body |-> body, rows |-> rows]

NotLinted == [done |-> FALSE, text |-> <<>>, clean |-> <<>>, flags |-> <<>>]

Init ==
    /\ API_KEY \in BOOLEAN
    /\ text \in AppTexts
    /\ button = "none"
    /\ pc = "idle"
    /\ flags = <<>>
    /\ clean = <<>>
    /\ polishBox = FALSE
    /\ polish = "off"
    /\ download = NoDownload
    /\ linted = NotLinted

\* A click on button b, or with b = "none" another event (new text t
\* uploaded or pasted), reruns the script from the top down to
\* flags, clean = [], "".
StartRun(b, t) ==
    /\ pc = "idle"
    /\ b # "none" => t = text
    /\ text' = t
    /\ button' = b
    /\ flags' = <<>>
    /\ clean' = <<>>
    /\ polishBox' = FALSE
    /\ polish' = "off"
    /\ download' = NoDownload
    /\ pc' = "linter"
    /\ UNCHANGED <<API_KEY, linted>>

\* if st.button("Run Accessibility Linter"): not clicked
LinterSkipped ==
    /\ pc = "linter"
    /\ button # "lint"
    /\ pc' = "exports"
    /\ UNCHANGED <<API_KEY, text, button, flags, clean, polishBox, polish, download, linted>>

\* if not text.strip(): st.warning("Upload or paste some text first.")
LinterBlank ==
    /\ pc = "linter"
    /\ button = "lint"
    /\ IsBlank(text)
    /\ pc' = "exports"
    /\ UNCHANGED <<API_KEY, text, button, flags, clean, polishBox, polish, download, linted>>

\* else: the flag loop and the three substitutions
LinterRun ==
    /\ pc = "linter"
    /\ button = "lint"
    /\ ~IsBlank(text)
    /\ flags' = flags \o LintFlags(text)
    /\ clean' = CleanCopy(text)
    /\ linted' = [done |-> TRUE, text |-> text, clean |-> clean', flags |-> flags']
    /\ pc' = "polish"
    /\ UNCHANGED <<API_KEY, text, button, polishBox, polish, download>>

\* a variant that does not ask for the credential
WantsPolishWithoutKey(box, key, openai) == box /\ openai

\* if st.checkbox("Polish with AI (if API enabled)") and API_KEY:
\*     OpenAI = try_imports(for_openai=True).get("OpenAI"); if OpenAI:
WantsPolish(box, key, openai) == box /\ key /\ openai

\* clean after client.chat.completions.create raised
CleanAfterError(c) == c

\* the checkbox is off, there is no credential, or the client cannot be imported
PolishSkip(box, openai) ==
    /\ pc = "polish"
    /\ ~WantsPolish(box, API_KEY, openai)
    /\ polishBox' = box
    /\ pc' = "exports"
    /\ UNCHANGED <<API_KEY, text, button, flags, clean, polish, download, linted>>

\* clean = resp.choices[0].message.content
PolishOk(box, openai, resp) ==
    /\ pc = "polish"
    /\ WantsPolish(box, API_KEY, openai)
    /\ polishBox' = box
    /\ polish' = "ok"
    /\ clean' = resp
    /\ linted' = [linted EXCEPT !.clean = resp]
    /\ pc' = "exports"
    /\ UNCHANGED <<API_KEY, text, button, flags, download>>

\* except Exception as e: st.warning(f"Polish unavailable: {e}")
PolishError(box, openai) ==
    /\ pc = "polish"
    /\ WantsPolish(box, API_KEY, openai)
    /\ polishBox' = box
    /\ polish' = "error"
    /\ clean' = CleanAfterError(clean)
    /\ pc' = "exports"
    /\ UNCHANGED <<API_KEY, text, button, flags, download, linted>>

\* no export button was clicked in this run
ExportNone ==
    /\ pc = "exports"
    /\ button \in {"none", "lint"}
    /\ pc' = "idle"
    /\ UNCHANGED <<API_KEY, text, button, flags, clean, polishBox, polish, download, linted>>

\* body = clean if clean else text
WpsBody(c, t) == IF Len(c) > 0 THEN c ELSE t

\* if st.button("Export WPS (.docx)"):
ExportWPS(docx) ==
    /\ pc = "exports"
    /\ button = "wps"
    /\ LET body == WpsBody(clean, text)
       IN  download' = IF IsBlank(body) THEN Offer("warning", <<>>, <<>>)
                       ELSE IF ~docx THEN Offer("error", <<>>, <<>>)
                       ELSE Offer("wps", body, <<>>)
    /\ pc' = "idle"
    /\ UNCHANGED <<API_KEY, text, button, flags, clean, polishBox, polish, linted>>

RtiNotesLimit == 1500

Take(s, n) == SubSeq(s, 1, IF Len(s) < n THEN Len(s) ELSE n)

\* if clean.strip(): notes += "\nNotes:\n" + clean[:1500]
RtiNotes(c) ==
    IF IsBlank(c) THEN RtiOutline ELSE RtiOutline \o RtiNotesHeader \o Take(c, RtiNotesLimit)

\* if st.button("Export RTI (.docx)"):
ExportRTI(docx) ==
    /\ pc = "exports"
    /\ button = "rti"
    /\ download' = IF docx THEN Offer("rti", RtiNotes(clean), <<>>)
                   ELSE Offer("error", <<>>, <<>>)
    /\ pc' = "idle"
    /\ UNCHANGED <<API_KEY, text, button, flags, clean, polishBox, polish, linted>>

EmptyRow ==
    [rule_id |-> "", severity |-> "", match |-> <<>>, message |-> "", suggestion |-> ""]

\* pd.DataFrame(flags or [{"rule_id":"", ...}])
ChecklistRows(f) == IF Len(f) > 0 THEN f ELSE <<EmptyRow>>

\* if st.button("Export Checklist (.xlsx)"):
ExportChecklist(pd) ==
    /\ pc = "exports"
    /\ button = "xlsx"
    /\ download' = IF pd THEN Offer("xlsx", <<>>, ChecklistRows(flags))
                   ELSE Offer("error", <<>>, <<>>)
    /\ pc' = "idle"
    /\ UNCHANGED <<API_KEY, text, button, flags, clean, polishBox, polish, linted>>

Next ==
    \/ \E b \in Buttons, t \in AppTexts : StartRun(b, t)
    \/ LinterSkipped
    \/ LinterBlank
    \/ LinterRun
    \/ \E box \in BOOLEAN, openai \in BOOLEAN : PolishSkip(box, openai)
    \/ \E box \in BOOLEAN, openai \in BOOLEAN, resp \in PolishedTexts : PolishOk(box, openai, resp)
    \/ \E box \in BOOLEAN, openai \in BOOLEAN : PolishError(box, openai)
    \/ ExportNone
    \/ \E docx \in BOOLEAN : ExportWPS(docx)
    \/ \E docx \in BOOLEAN : ExportRTI(docx)
    \/ \E pd \in BOOLEAN : ExportChecklist(pd)

\* the application: any text of AppTexts, any sequence of runs
Spec == Init /\ [][Next]_vars

\* the linter alone, on every bounded text: a run of the linter button with
\* no credential, from the reset of flags and clean on
LintInit ==
    /\ API_KEY = FALSE
    /\ text \in LintTexts
    /\ button = "lint"
    /\ pc = "linter"
    /\ flags = <<>>
    /\ clean = <<>>
    /\ polishBox = FALSE
    /\ polish = "off"
    /\ download = NoDownload
    /\ linted = NotLinted

LintNext ==
    \/ LinterBlank
    \/ LinterRun
    \/ PolishSkip(FALSE, FALSE)
    \/ ExportNone

LintSpec == LintInit /\ [][LintNext]_vars

\* ------------------------------------------------------------------------
\* Vocabulary of the properties
\* ------------------------------------------------------------------------

\* the linter pass of this run has just ended, nothing has polished clean yet
Linted == pc = "polish"

\* the linter section of a run of the linter button is over, blank text or not
LinterDone == button = "lint" /\ pc = "exports"

AllWhitespace(s) == \A k \in 1..Len(s) : s[k] \in {" ", "\t", "\n", "\r"}

\* sub stands in s at position i, letter case aside
StandsAt(s, i, sub) ==
    /\ i >= 1
    /\ i + Len(sub) - 1 <= Len(s)
    /\ \A k \in 1..Len(sub) : Lower(s[i + k - 1]) = Lower(sub[k])

\* the positions where sub stands in s, letter case aside
Occurrences(s, sub) == {i \in 1..Len(s) : StandsAt(s, i, sub)}

\* sub is a substring of s, letter for letter
Contains(s, sub) ==
    \E i \in 1..(Len(s) - Len(sub) + 1) : SubSeq(s, i, i + Len(sub) - 1) = sub

NotWordAt(s, i) == i < 1 \/ i > Len(s) \/ s[i] \notin WordChars

\* w stands in s as a whole word, in any letter case
HasWholeWord(s, w) ==
    \E i \in Occurrences(s, w) : NotWordAt(s, i - 1) /\ NotWordAt(s, i + Len(w))

\* the match fields of the flags of rule id, in the order of the flags
MatchesOf(f, id) ==
    LET own == SelectSeq(f, LAMBDA x : x.rule_id = id)
    IN  [k \in 1..Len(own) |-> own[k].match]

RuleIndex(id) == CHOOSE k \in 1..Len(RULES) : RULES[k].id = id

\* ------------------------------------------------------------------------
\* Scenarios
\* ------------------------------------------------------------------------

\* C1: linting "Workers must enjoy climbing ladders and lifting 50 lbs
\* daily." yields exactly one R-A1 flag, matching "climbing", exactly one
\* R-A2 flag, matching "lifting 50 lbs", and a clean copy that contains
\* "enjoy ascend ladders and move materials up to 50 lbs using safe methods
\* daily."
C1_Scenario1 ==
    (Linted /\ text = Scenario1Text) =>
        /\ MatchesOf(flags, "R-A1") = <<Scenario1Climb>>
        /\ MatchesOf(flags, "R-A2") = <<Scenario1Lift>>
        /\ Contains(clean, Scenario1Tail)

\* the unit words of R-A2
Units == {s_lb, s_lbs, s_pounds, s_kg}

\* the longest unit word written in s at position i
FullUnitAt(s, i) ==
    LET written == {u \in Units : StandsAt(s, i, u)}
        u == CHOOSE x \in written : \A y \in written : Len(y) <= Len(x)
    IN  SubSeq(s, i, i + Len(u) - 1)

\* C2: wherever R-A2 matches "lift" or "lifting", a number and one of the
\* units lb, lbs, pounds, kg, the flag's match runs to the end of the unit
\* as written, and the clean copy holds "move materials up to {number}
\* {unit} using safe methods" with that number and that whole unit.
C2_LiftKeepsWholeUnit ==
    Linted =>
        LET ms == re_finditer(LiftPattern, text, TRUE)
            own == MatchesOf(flags, "R-A2")
        IN  \A k \in 1..Len(ms) :
              ms[k].g[2] # <<0, 0>> =>
                LET unit == FullUnitAt(text, ms[k].g[2][1])
                    number == GroupText(text, ms[k], 1)
                IN  /\ k <= Len(own)
                    /\ own[k] = SubSeq(text, ms[k].b, ms[k].g[2][1] + Len(unit) - 1)
                    /\ Contains(clean, s_move_materials \o number \o s_space \o unit
                                         \o s_safe_methods)

\* C3, as the specification states it: linting "We need a detail-oriented
\* team player." yields exactly one R-B3 flag, and the clean copy has the
\* one matched span replaced by the inclusive phrase, the rest intact.
C3_Scenario2_OneFlag ==
    (Linted /\ text = Scenario2Text) =>
        /\ Len(MatchesOf(flags, "R-B3")) = 1
        /\ clean \in {Scenario2Clean1, Scenario2Clean2}

\* C3, amended: linting "We need a detail-oriented team player." yields
\* exactly two R-B3 flags, "detail-oriented" and then "team player", and
\* the clean copy has both matched spans replaced by the inclusive phrase,
\* the rest of the sentence intact.
C3_Scenario2_TwoFlags ==
    (Linted /\ text = Scenario2Text) =>
        /\ MatchesOf(flags, "R-B3") = <<s_detail \o <<"-">> \o s_oriented, s_team_player>>
        /\ Len(flags) = 2
        /\ clean = Scenario2CleanBoth

C3_Witness == Linted /\ text = Scenario2Text /\ Len(flags) = 2

\* C4, as the specification states it: a lint run on an empty or
\* whitespace-only text yields no flags and a clean copy equal to the text.
C4_BlankCleanIsInput ==
    (LinterDone /\ AllWhitespace(text)) => (flags = <<>> /\ clean = text)

\* C4, amended: a lint run on an empty or whitespace-only text does not
\* fail (the run goes on to the export section, with nothing offered yet),
\* and yields no flags and the empty clean copy, which is the text only
\* when the text is empty.
C4_BlankCleanIsEmpty ==
    /\ (LinterDone /\ AllWhitespace(text)) =>
          (flags = <<>> /\ clean = <<>> /\ download = NoDownload)
    /\ (pc = "polish") => ~AllWhitespace(text)

C4_Witness == LinterDone /\ AllWhitespace(text) /\ Len(text) > 0

\* ------------------------------------------------------------------------
\* The linter pass on every bounded text
\* ------------------------------------------------------------------------

\* rule r's matches in the original text t as (rule id, matched substring)
OriginalMatches(r, t) ==
    LET ms == re_finditer(r.pattern, t, "i" \in r.flags)
    IN  [k \in 1..Len(ms) |-> <<r.id, SubSeq(t, ms[k].b, ms[k].e - 1)>>]

\* C5: the flags are one flag per non-overlapping match of each rule's
\* pattern in the original text, never in the partly rewritten clean copy,
\* in rule order R-A1, R-A2, R-B3, R-D1 and from left to right within a
\* rule; each match field is the matched substring of the original text.
\* A blank text has no flag and no match.
C5_FlagsFromOriginalText ==
    /\ Linted =>
         /\ [k \in 1..Len(flags) |-> <<flags[k].rule_id, flags[k].match>>]
              = Concat([r \in 1..Len(RULES) |-> OriginalMatches(RULES[r], text)])
         /\ \A j, k \in 1..Len(flags) :
              j < k => RuleIndex(flags[j].rule_id) <= RuleIndex(flags[k].rule_id)
         /\ \A k \in 1..Len(flags) : Contains(text, flags[k].match)
    /\ (LinterDone /\ AllWhitespace(text)) =>
         /\ flags = <<>>
         /\ \A r \in 1..Len(RULES) : OriginalMatches(RULES[r], text) = <<>>

\* a rule that is both detected and rewritten has matched, and the rewrite
\* has taken its match out of the clean copy
C5_Witness ==
    /\ Linted
    /\ Len(MatchesOf(flags, "R-A1")) > 0
    /\ Len(MatchesOf(flags, "R-D1")) > 0
    /\ clean # text

\* the replacement template of a rewrite-eligible rule
RewriteOf(id) ==
    CASE id = "R-A1" -> ClimbSubRepl
      [] id = "R-A2" -> LiftSubRepl
      [] id = "R-B3" -> SoftSkillSubRepl

\* the substitutions of the rules of rs numbered k and up that are among
\* eligible, one after the other, each with its rule's own pattern and case
\* flag, starting from c
RECURSIVE ApplyRewrites(_, _, _, _)
ApplyRewrites(rs, eligible, k, c) ==
    IF k > Len(rs) THEN c
    ELSE ApplyRewrites(rs, eligible, k + 1,
           IF rs[k].id \in eligible
           THEN re_sub(rs[k].pattern, RewriteOf(rs[k].id), c, "i" \in rs[k].flags)
           ELSE c)

RewriteEligible == {"R-A1", "R-A2", "R-B3"}

\* C6: for every non-blank text the clean copy is the substitutions of
\* R-A1, R-A2 and R-B3 applied in that order, each to the result of the one
\* before and the first to the original text, each replacing every match of
\* the pattern, and under the case flag, that the rule detects with.
C6_CleanIsRewritesInRuleOrder ==
    Linted => clean = ApplyRewrites(RULES, RewriteEligible, 1, text)

\* two rewrites have acted, one of them on letters in another case than the
\* pattern's
C6_Witness ==
    /\ Linted
    /\ Len(MatchesOf(flags, "R-A1")) > 0
    /\ \E k \in 1..Len(flags) :
         flags[k].rule_id = "R-A2" /\ \E j \in 1..Len(flags[k].match) :
                                         flags[k].match[j] \in UpperLetters

\* RULES without the rule id
RulesWithout(id) == SelectSeq(RULES, LAMBDA r : r.id # id)

\* the clean copy the linter section leaves when run with rule table rs:
\* nothing for a blank text
CleanUnder(rs, t) ==
    IF AllWhitespace(t) THEN <<>> ELSE ApplyRewrites(rs, RewriteEligible, 1, t)

\* no rule that rewrites has flagged anything
NoRewriteFlag == \A k \in 1..Len(flags) : flags[k].rule_id \notin RewriteEligible

\* every occurrence of the R-D1 phrase has one flag and is still in the
\* clean copy, which is as it would be with R-D1 taken out of the table
DetectOnly ==
    /\ Len(MatchesOf(flags, "R-D1")) = Cardinality(Occurrences(text, s_accommodation))
    /\ Cardinality(Occurrences(clean, s_accommodation))
         = Cardinality(Occurrences(text, s_accommodation))
    /\ clean = CleanUnder(RulesWithout("R-D1"), text)

\* C7, as the specification states it: for every text, each occurrence of
\* "with or without reasonable accommodation" gives one R-D1 flag, the
\* clean copy is what it would be without R-D1, and when no rewrite-eligible
\* rule matches the text the clean copy is the text.
C7_DetectOnlyEveryText ==
    LinterDone => (DetectOnly /\ (NoRewriteFlag => clean = text))

\* C7, amended: for every text, each occurrence of the phrase gives one
\* R-D1 flag and the clean copy is what it would be without R-D1; when no
\* rewrite-eligible rule matches a non-blank text the clean copy is the
\* text, and for a blank text it is empty.
C7_DetectOnlyNonBlank ==
    LinterDone =>
        /\ DetectOnly
        /\ (NoRewriteFlag /\ ~AllWhitespace(text)) => clean = text
        /\ AllWhitespace(text) => clean = <<>>

\* R-D1 has matched in a text that another rule has rewritten, and the
\* phrase is still in the clean copy
C7_Witness ==
    /\ LinterDone
    /\ Len(MatchesOf(flags, "R-D1")) > 0
    /\ clean # text
    /\ Occurrences(clean, s_accommodation) # {}

\* C8: for every text, the clean copy of the linter pass holds no whole-word
\* "climb" or "climbing" in any letter case, R-A2's and R-B3's substitutions
\* included, so that linting it again gives no R-A1 flag.
C8_NoClimbLeft ==
    LinterDone =>
        /\ ~HasWholeWord(clean, s_climb)
        /\ ~HasWholeWord(clean, s_climb \o s_ing)
        /\ MatchesOf(LintFlags(clean), "R-A1") = <<>>

\* the text had the word in capitals, and a later substitution has acted
C8_Witness ==
    /\ LinterDone
    /\ \E i \in Occurrences(text, s_climb \o s_ing) :
         NotWordAt(text, i - 1) /\ NotWordAt(text, i + Len(s_climb \o s_ing)) /\ text[i] = "C"
    /\ Len(MatchesOf(flags, "R-A2")) > 0

\* ------------------------------------------------------------------------
\* Polish and exports, run after run
\* ------------------------------------------------------------------------

\* the remote model is called in this step
PolishCalled == polish = "off" /\ polish' # "off"

\* C9: the remote model is called only in the polish step, after the linter
\* pass has set the rule-based clean copy, and only with a credential and
\* the checkbox ticked; when the call fails the run goes on to the export
\* section with the rule-based clean copy; and whatever the polish step
\* does, it leaves the flags as they are.
C9_PolishAfterCleanAndHarmless ==
    [][ /\ PolishCalled =>
             /\ pc = "polish"
             /\ API_KEY
             /\ polishBox'
             /\ linted.done /\ linted.text = text /\ ~AllWhitespace(text)
             /\ clean = ApplyRewrites(RULES, RewriteEligible, 1, text)
        /\ (PolishCalled /\ polish' = "error") =>
             /\ pc' = "exports"
             /\ clean' = ApplyRewrites(RULES, RewriteEligible, 1, text)
        /\ pc = "polish" => flags' = flags
      ]_vars

\* the call has failed on a text the rules flag and rewrite
C9_Witness ==
    /\ pc = "exports"
    /\ polish = "error"
    /\ Len(flags) > 0
    /\ clean # text

\* C10: an export that follows a linter pass on the same non-blank text is
\* given that pass's clean copy and flags: the WPS body is the clean copy,
\* the checklist rows are the flags.
C10_ExportGetsLinterResults ==
    (pc = "idle" /\ linted.done /\ linted.text = text) =>
        /\ download.kind = "wps" => download.body = linted.clean
        /\ download.kind = "xlsx" => download.rows = linted.flags

====
